---- MODULE Spec2Model ----
(***************************************************************************)
(* Dependency analysis of kcenon/common_system.                            *)
(*                                                                         *)
(*   tools/dependency_analyzer.py    module-level entry point              *)
(*   scripts/check_circular_deps.py  file-level entry point                *)
(*                                                                         *)
(* One run of one entry point is one behaviour: Init picks the entry       *)
(* point, the scan actions build the graph from what the scanned files     *)
(* declare (the input, drawn from bounded sets), and the analysis actions  *)
(* apply the cycle scans, the level calculation and the policy check.      *)
(* ScanSpec follows the two scans file by file: the tree under the scan    *)
(* root, the lines each file holds, the files that cannot be read.         *)
(***************************************************************************)
EXTENDS Integers, Sequences, FiniteSets, TLC

\* ------------------------------------------------------------------ bounds

\* Number of systems of DependencyAnalyzer.systems the model analyses
\* (the first NumSystems of the list, in the list's order).
NumSystems == 3

\* Total number of dependency declarations (link + include) the module-level
\* scan finds in one run.
MaxDecls == 4

\* Number of header files under the include directory.
NumFiles == 3

\* Total number of resolved include entries the file-level scan finds.
MaxIncludes == 3

\* ----------------------------------------------------------------- helpers

Range(q) == {q[i] : i \in 1..Len(q)}

\* Python list.index: position of the first occurrence of x in q.
Index(q, x) == CHOOSE i \in 1..Len(q) : q[i] = x /\ \A j \in 1..(i - 1) : q[j] # x

\* Every order in which a Python set with the elements S can be enumerated.
Enumerations(S) == {q \in [1..Cardinality(S) -> S] : Range(q) = S}

\* dict.get(key, default) on a dict modelled as a function.
Get(d, k, default) == IF k \in DOMAIN d THEN d[k] ELSE default

\* ------------------------------------------------- module level: constants

\* DependencyAnalyzer.__init__: self.systems
AllSystems ==
    << "common_system", "thread_system", "logger_system", "monitoring_system",
       "container_system", "database_system", "network_system" >>

systems == SubSeq(AllSystems, 1, NumSystems)

Systems == Range(systems)

\* generate_report: expected_layers
expected_layers ==
    [s \in Range(AllSystems) |->
        CASE s = "common_system"     -> 0
          [] s = "thread_system"     -> 1
          [] s = "logger_system"     -> 1
          [] s = "monitoring_system" -> 2
          [] s = "container_system"  -> 1
          [] s = "database_system"   -> 2
          [] s = "network_system"    -> 2]

\* --------------------------------------------------- file level: constants

\* Relative paths of the headers under the include directory, in
\* lexicographic order (the order sorted() gives them).
AllFiles == << "a.h", "b.h", "c.hpp", "d.h", "e.hpp" >>

files == SubSeq(AllFiles, 1, NumFiles)

Files == Range(files)

HFiles == {f \in Files : f \in {"a.h", "b.h", "d.h"}}

HppFiles == Files \ HFiles

\* Position of a path in lexicographic order.
Rank(f) == Index(AllFiles, f)

\* ------------------------------------------- module level: pure functions

\* detect_cycles: the state shared by the nested dfs() calls.
\*   visited, rec_stack, cycles: the three locals of detect_cycles;
\*   ret: the value the last dfs() call returned.
\* The path argument of dfs() is appended to and never read; it is left out.
RECURSIVE dfs(_, _, _)
RECURSIVE dfs_neighbors(_, _, _, _)

\* The for loop of dfs() over the neighbours of node, from the i-th on.
dfs_neighbors(order, st, node, i) ==
    LET nbrs == Get(order, node, <<>>) IN
    IF i > Len(nbrs)
    THEN [st EXCEPT !.rec_stack = SubSeq(@, 1, Len(@) - 1), !.ret = FALSE]
    ELSE
      LET neighbor == nbrs[i] IN
      IF neighbor \notin st.visited
      THEN LET r == dfs(order, st, neighbor) IN
           IF r.ret THEN r ELSE dfs_neighbors(order, r, node, i + 1)
      ELSE IF neighbor \in Range(st.rec_stack)
      THEN LET cycle_start == Index(st.rec_stack, neighbor)
               cycle == SubSeq(st.rec_stack, cycle_start, Len(st.rec_stack))
                          \o <<neighbor>>
           IN [st EXCEPT !.cycles = IF cycle \in Range(@) THEN @
                                     ELSE Append(@, cycle),
                         !.ret = TRUE]
      ELSE dfs_neighbors(order, st, node, i + 1)

dfs(order, st, node) ==
    dfs_neighbors(order,
                  [st EXCEPT !.visited = @ \cup {node},
                             !.rec_stack = Append(@, node)],
                  node, 1)

\* The top-level loop of detect_cycles over self.systems, from the i-th on;
\* st.starts collects what rec_stack holds when each dfs(system, []) begins.
RECURSIVE detect_loop(_, _, _)
detect_loop(order, st, i) ==
    IF i > Len(systems) THEN st
    ELSE IF systems[i] \notin st.visited
         THEN detect_loop(order,
                          dfs(order,
                              [st EXCEPT !.starts = Append(@, st.rec_stack)],
                              systems[i]),
                          i + 1)
         ELSE detect_loop(order, st, i + 1)

\* detect_cycles with the traversal started from the first system only, so
\* that a component the first system does not reach is never searched.
detect_cycles_first_component(order) ==
    dfs(order,
        [visited |-> {}, rec_stack |-> <<>>, cycles |-> <<>>, ret |-> FALSE],
        systems[1]).cycles

\* detect_cycles: the locals when the function returns; order[s] is the
\* order in which the set all_deps[s] enumerates.
detect_scan(order) ==
    detect_loop(order,
                [visited |-> {}, rec_stack |-> <<>>, cycles |-> <<>>,
                 ret |-> FALSE, starts |-> <<>>],
                1)

\* DependencyAnalyzer.detect_cycles
detect_cycles(order) == detect_scan(order).cycles

\* calculate_levels: in_degree after the counting loop.
in_degree_of(deps) ==
    [d \in Systems |->
        Cardinality({s \in Systems : d \in Get(deps, s, {})})]

\* calculate_levels: "for other in self.systems", from the i-th system on,
\* after `system` was taken from the queue.
RECURSIVE reduce_dependents(_, _, _, _)
reduce_dependents(deps, st, system, i) ==
    IF i > Len(systems) THEN st
    ELSE
      LET other == systems[i] IN
      IF system \in Get(deps, other, {})
      THEN LET d == st.in_degree[other] - 1
               st1 == [st EXCEPT !.in_degree[other] = d,
                                 !.queue = IF d = 0 THEN Append(@, other)
                                           ELSE @]
           IN reduce_dependents(deps, st1, system, i + 1)
      ELSE reduce_dependents(deps, st, system, i + 1)

\* calculate_levels: "for _ in range(level_size)", k iterations left.
RECURSIVE process_layer(_, _, _)
process_layer(deps, st, k) ==
    IF k = 0 THEN st
    ELSE
      LET system == Head(st.queue)
          st1 == [st EXCEPT !.queue = Tail(@),
                            !.levels = [s \in DOMAIN @ \cup {system} |->
                                          IF s = system THEN st.level
                                          ELSE @[s]]]
      IN process_layer(deps, reduce_dependents(deps, st1, system, 1), k - 1)

\* calculate_levels: "while queue".
RECURSIVE level_loop(_, _)
level_loop(deps, st) ==
    IF st.queue = <<>> THEN st
    ELSE LET st1 == process_layer(deps, st, Len(st.queue))
         IN level_loop(deps, [st1 EXCEPT !.level = @ + 1])

\* handle_cyclic with the unleveled systems defaulted to level 0.
handle_cyclic_default_zero(lv) ==
    [s \in Systems |-> IF s \in DOMAIN lv THEN lv[s] ELSE 0]

\* calculate_levels: "Handle cyclic dependencies", the loop that gives every
\* system the while loop left without a level the cycle indicator.
handle_cyclic(lv) ==
    [s \in Systems |-> IF s \in DOMAIN lv THEN lv[s] ELSE -1]

\* DependencyAnalyzer.calculate_levels
calculate_levels(deps) ==
    LET in_degree == in_degree_of(deps)
        queue == SelectSeq(systems, LAMBDA s : in_degree[s] = 0)
        st == level_loop(deps, [queue |-> queue, in_degree |-> in_degree,
                                levels |-> <<>>, level |-> 0])
    IN handle_cyclic(st.levels)

\* violations_of with the comparison "dep_level > expected_level".
RECURSIVE violations_of_strict(_, _, _)
violations_of_strict(system, deps, i) ==
    IF i > Len(deps) THEN <<>>
    ELSE
      LET dep == deps[i]
          expected_level == expected_layers[system]
          dep_level == Get(expected_layers, dep, 0)
          rest == violations_of_strict(system, deps, i + 1)
      IN IF dep_level > expected_level /\ dep # "common_system"
         THEN <<(<<system, dep, expected_level, dep_level>>)>> \o rest
         ELSE rest

\* generate_report: the violations found for `system`, whose dependencies
\* enumerate in the order deps.
RECURSIVE violations_of(_, _, _)
violations_of(system, deps, i) ==
    IF i > Len(deps) THEN <<>>
    ELSE
      LET dep == deps[i]
          expected_level == expected_layers[system]
          dep_level == Get(expected_layers, dep, 0)
          rest == violations_of(system, deps, i + 1)
      IN IF dep_level >= expected_level /\ dep # "common_system"
         THEN <<(<<system, dep, expected_level, dep_level>>)>> \o rest
         ELSE rest

\* generate_report: "for system, expected_level in expected_layers.items()",
\* from the i-th key on; keys are the keys of expected_layers the run has.
RECURSIVE layer_violations(_, _, _)
layer_violations(keys, order, i) ==
    IF i > Len(keys) THEN <<>>
    ELSE violations_of(keys[i], Get(order, keys[i], <<>>), 1)
           \o layer_violations(keys, order, i + 1)

\* main_return with the test "cycles is not None" in place of "cycles".
main_return_not_none(found) == 1

\* main: the value returned to sys.exit after the summary.
main_return(found) == IF found # <<>> THEN 1 ELSE 0

\* --------------------------------------------- file level: pure functions

\* The keys of the graph dict.
Keys(g) == {g[i][1] : i \in 1..Len(g)}

\* graph[k] for a key k of the graph dict.
Item(g, k) == g[CHOOSE i \in 1..Len(g) : g[i][1] = k][2]

\* graph.get(node, [])
DepsOf(g, node) == IF node \in Keys(g) THEN Item(g, node) ELSE <<>>

\* tuple(sorted([src, dst]))
SortedPair(src, dst) ==
    IF Rank(src) <= Rank(dst) THEN <<src, dst>> ELSE <<dst, src>>

\* direct_deps without the checked set: every edge is tested.
RECURSIVE direct_deps_unchecked(_, _, _, _, _)
direct_deps_unchecked(g, st, src, deps, j) ==
    IF j > Len(deps) THEN st
    ELSE
      LET dst == deps[j] IN
      IF dst \in Keys(g) /\ src \in Range(Item(g, dst))
      THEN direct_deps_unchecked(g, [st EXCEPT !.cycles = Append(@, <<src, dst>>)],
                                 src, deps, j + 1)
      ELSE direct_deps_unchecked(g, st, src, deps, j + 1)

\* direct_deps with the reverse edge looked up at the head of graph[dst]
\* only ("graph[dst][0] == src").
RECURSIVE direct_deps_head_lookup(_, _, _, _, _)
direct_deps_head_lookup(g, st, src, deps, j) ==
    IF j > Len(deps) THEN st
    ELSE
      LET dst == deps[j]
          pair == SortedPair(src, dst)
      IN IF pair \notin st.checked
         THEN LET st1 == [st EXCEPT !.checked = @ \cup {pair}] IN
              IF dst \in Keys(g) /\ Item(g, dst)[1] = src
              THEN direct_deps_head_lookup(
                     g, [st1 EXCEPT !.cycles = Append(@, <<src, dst>>)],
                     src, deps, j + 1)
              ELSE direct_deps_head_lookup(g, st1, src, deps, j + 1)
         ELSE direct_deps_head_lookup(g, st, src, deps, j + 1)

\* "graph[dst]" without "dst in graph and" before it.
subscripted_unguarded(g, dst) == {dst}

\* The keys "dst in graph and src in graph[dst]" subscripts the
\* defaultdict with.
subscripted(g, dst) == IF dst \in Keys(g) THEN {dst} ELSE {}

\* find_direct_cycles: "for dst in deps", from the j-th entry on; st.read
\* collects the keys the graph is subscripted with.
RECURSIVE direct_deps(_, _, _, _, _)
direct_deps(g, st, src, deps, j) ==
    IF j > Len(deps) THEN st
    ELSE
      LET dst == deps[j]
          pair == SortedPair(src, dst)
      IN IF pair \notin st.checked
         THEN LET st1 == [st EXCEPT !.checked = @ \cup {pair},
                                    !.read = @ \cup subscripted(g, dst)] IN
              IF dst \in Keys(g) /\ src \in Range(Item(g, dst))
              THEN direct_deps(g, [st1 EXCEPT !.cycles = Append(@, <<src, dst>>)],
                               src, deps, j + 1)
              ELSE direct_deps(g, st1, src, deps, j + 1)
         ELSE direct_deps(g, st, src, deps, j + 1)

\* find_direct_cycles: "for src, deps in graph.items()", from the i-th on.
RECURSIVE direct_items(_, _, _)
direct_items(g, st, i) ==
    IF i > Len(g) THEN st
    ELSE direct_items(g, direct_deps(g, st, g[i][1], g[i][2], 1), i + 1)

\* find_direct_cycles
find_direct_cycles(g) ==
    direct_items(g, [cycles |-> <<>>, checked |-> {}, read |-> {}], 1).cycles

\* The graph after find_direct_cycles: a defaultdict(list) inserts every
\* missing key it is subscripted with.
graph_after_direct(g) ==
    LET read == direct_items(g, [cycles |-> <<>>, checked |-> {},
                                 read |-> {}], 1).read
        missing == SelectSeq(AllFiles, LAMBDA k : k \in read \ Keys(g))
    IN g \o [i \in 1..Len(missing) |-> <<missing[i], <<>>>>]

\* find_transitive_cycles: the state shared by the nested dfs() calls.
\*   visited, rec_stack: the two sets of find_transitive_cycles;
\*   path: the list handed down by the top-level call;
\*   cycle: the value the last dfs() call returned, <<>> for None.
RECURSIVE t_dfs(_, _, _)
RECURSIVE t_neighbors(_, _, _, _)

\* The cycle slice without the ValueError guard: a neighbor that is not on
\* the path closes the whole path.
cycle_slice_whole_path(path, neighbor) ==
    IF neighbor \in Range(path)
    THEN SubSeq(path, Index(path, neighbor), Len(path)) \o <<neighbor>>
    ELSE path \o <<neighbor>>

\* "try: cycle_start = path.index(neighbor);
\*       return path[cycle_start:] + [neighbor]
\*  except ValueError: pass": the cycle, <<>> when the loop goes on.
cycle_slice(path, neighbor) ==
    IF neighbor \in Range(path)
    THEN SubSeq(path, Index(path, neighbor), Len(path)) \o <<neighbor>>
    ELSE <<>>

\* The for loop of dfs() over graph.get(node, []), from the i-th entry on.
t_neighbors(g, st, node, i) ==
    LET nbrs == DepsOf(g, node) IN
    IF i > Len(nbrs)
    THEN [st EXCEPT !.path = SubSeq(@, 1, Len(@) - 1),
                    !.rec_stack = @ \ {node},
                    !.cycle = <<>>]
    ELSE
      LET neighbor == nbrs[i] IN
      IF neighbor \notin st.visited
      THEN LET r == t_dfs(g, st, neighbor) IN
           IF r.cycle # <<>> THEN r ELSE t_neighbors(g, r, node, i + 1)
      ELSE IF /\ neighbor \in st.rec_stack
              /\ cycle_slice(st.path, neighbor) # <<>>
      THEN [st EXCEPT !.cycle = cycle_slice(st.path, neighbor)]
      ELSE t_neighbors(g, st, node, i + 1)

t_dfs(g, st, node) ==
    t_neighbors(g,
                [st EXCEPT !.visited = @ \cup {node},
                           !.rec_stack = @ \cup {node},
                           !.path = Append(@, node)],
                node, 1)

\* all_nodes: the keys of the graph and every entry of every list.
AllNodes(g) == Keys(g) \cup UNION {Range(g[i][2]) : i \in 1..Len(g)}

\* sorted(all_nodes)
Sorted(S) == SelectSeq(AllFiles, LAMBDA f : f \in S)

\* find_transitive_cycles: "for node in sorted(all_nodes)", from the i-th
\* on; st.starts collects what rec_stack holds when each dfs(node, [])
\* begins.
RECURSIVE transitive_loop(_, _, _, _)
transitive_loop(g, nodes, st, i) ==
    IF i > Len(nodes) THEN st
    ELSE IF nodes[i] \notin st.visited
         THEN LET r == t_dfs(g, [st EXCEPT !.path = <<>>,
                                           !.starts = Append(@, st.rec_stack)],
                             nodes[i]) IN
              transitive_loop(g, nodes,
                              [r EXCEPT !.cycles = IF r.cycle # <<>>
                                                   THEN Append(@, r.cycle)
                                                   ELSE @],
                              i + 1)
         ELSE transitive_loop(g, nodes, st, i + 1)

\* find_transitive_cycles: the locals when the function returns.
transitive_scan(g) ==
    transitive_loop(g, Sorted(AllNodes(g)),
                    [visited |-> {}, rec_stack |-> {}, path |-> <<>>,
                     cycle |-> <<>>, cycles |-> <<>>, starts |-> <<>>],
                    1)

\* find_transitive_cycles
find_transitive_cycles(g) == transitive_scan(g).cycles

VARIABLES
    entry,              \* which entry point runs: "module" or "file"
    pc,                 \* position in main()
    exit_code,          \* process exit code, -1 while running
    \* module level (DependencyAnalyzer)
    analyzed,           \* number of systems analyze_all_systems has done
    cmake_deps,         \* self.cmake_deps
    include_deps,       \* self.include_deps
    all_deps,           \* self.all_deps
    enum_order,         \* the order in which each all_deps[s] enumerates
    cycles,             \* cycles found by the report's detect_cycles()
    levels,             \* levels computed by calculate_levels()
    violations,         \* layer violations listed by generate_report()
    \* file level (check_circular_deps)
    root_exists,        \* include_dir.exists()
    scanned,            \* headers build_dependency_graph has processed
    graph,              \* graph: sequence of <<key, deps>> in insertion order
    direct_cycles,      \* result of find_direct_cycles
    transitive_cycles,  \* result of find_transitive_cycles
    phases,             \* the phases the file-level main() has run
    output,             \* args.output is given
    written,            \* the report file of args.output has been written
    \* the scanned tree, for the scans modelled file by file
    tree,               \* the directory tree under the scan root
    contents            \* what each file read so far held

modVars == <<analyzed, cmake_deps, include_deps, all_deps, enum_order,
             cycles, levels, violations>>

fileVars == <<root_exists, scanned, graph, direct_cycles, transitive_cycles>>

outVars == <<phases, output, written>>

treeVars == <<tree, contents>>

vars == <<entry, pc, exit_code, modVars, fileVars, outVars, treeVars>>

\* ------------------------------------------------------------ state machine

Init ==
    /\ entry \in {"module", "file"}
    /\ pc = IF entry = "module" THEN "analyze" ELSE "check_root"
    /\ exit_code = -1
    /\ analyzed = 0
    /\ cmake_deps = <<>>
    /\ include_deps = <<>>
    /\ all_deps = <<>>
    /\ enum_order = <<>>
    /\ cycles = <<>>
    /\ levels = <<>>
    /\ violations = <<>>
    /\ root_exists \in (IF entry = "file" THEN BOOLEAN ELSE {TRUE})
    /\ scanned = {}
    /\ graph = <<>>
    /\ direct_cycles = <<>>
    /\ transitive_cycles = <<>>
    /\ phases = {}
    /\ output \in (IF entry = "file" THEN BOOLEAN ELSE {FALSE})
    /\ written = FALSE
    /\ tree = <<>>
    /\ contents = <<>>

\* d[k] = v on a dict modelled as a function.
Put(d, k, v) == [x \in DOMAIN d \cup {k} |-> IF x = k THEN v ELSE d[x]]

\* Number of declarations held by a dependency dict.
Decls(d) ==
    LET RECURSIVE Sum(_)
        Sum(K) == IF K = {} THEN 0
                  ELSE LET k == CHOOSE x \in K : TRUE
                       IN Cardinality(d[k]) + Sum(K \ {k})
    IN Sum(DOMAIN d)

\* What parse_cmake_dependencies(system) can return: other systems named in
\* a target_link_libraries, find_package or add_subdirectory statement.
parse_cmake_dependencies(system) == SUBSET (Systems \ {system})

\* What parse_include_dependencies(system) can return: other systems whose
\* kcenon/<name>/ directory an #include names.
parse_include_dependencies(system) == SUBSET (Systems \ {system})

\* d[k] read for every k of K on a defaultdict(set): a missing key is
\* inserted with the empty set.
Subscript(d, K) ==
    [x \in DOMAIN d \cup K |-> IF x \in DOMAIN d THEN d[x] ELSE {}]

\* analyze_all_systems: one iteration of "for system in self.systems".
AnalyzeSystem ==
    /\ entry = "module" /\ pc = "analyze"
    /\ analyzed < Len(systems)
    /\ LET system == systems[analyzed + 1] IN
       \E cmake \in parse_cmake_dependencies(system),
          include \in parse_include_dependencies(system) :
         /\ Decls(cmake_deps) + Decls(include_deps)
              + Cardinality(cmake) + Cardinality(include) <= MaxDecls
         /\ cmake_deps' = Put(cmake_deps, system, cmake)
         /\ include_deps' = Put(include_deps, system, include)
         /\ all_deps' = Put(all_deps, system, cmake \cup include)
         /\ \E q \in Enumerations(cmake \cup include) :
              enum_order' = Put(enum_order, system, q)
    /\ analyzed' = analyzed + 1
    /\ pc' = IF analyzed' = Len(systems) THEN "report" ELSE "analyze"
    /\ UNCHANGED <<treeVars, outVars, entry, exit_code, cycles, levels,
                   violations, fileVars>>

\* main: analyzer.generate_report()
GenerateReport ==
    /\ entry = "module" /\ pc = "report"
    /\ cycles' = detect_cycles(enum_order)
    /\ levels' = calculate_levels(all_deps)
    /\ violations' = layer_violations(systems, enum_order, 1)
    /\ cmake_deps' = Subscript(cmake_deps, Systems)
    /\ include_deps' = Subscript(include_deps, Systems)
    /\ all_deps' = Subscript(all_deps, Systems)
    /\ pc' = "graphviz"
    /\ UNCHANGED <<treeVars, outVars, entry, exit_code, analyzed, enum_order,
                   fileVars>>

\* main: analyzer.generate_graphviz_file(dot_file)
GenerateGraphviz ==
    /\ entry = "module" /\ pc = "graphviz"
    /\ levels' = calculate_levels(all_deps)
    /\ all_deps' = Subscript(all_deps, Systems)
    /\ pc' = "summary"
    /\ UNCHANGED <<treeVars, outVars, entry, exit_code, analyzed, cmake_deps,
                   include_deps, enum_order, cycles, violations, fileVars>>

\* main: "Print summary" and the return value handed to sys.exit.
Summary ==
    /\ entry = "module" /\ pc = "summary"
    /\ exit_code' = main_return(detect_cycles(enum_order))
    /\ pc' = "exit"
    /\ UNCHANGED <<treeVars, outVars, entry, modVars, fileVars>>

\* Every list of at most n resolved includes.
IncludeLists(n) == UNION {[1..k -> Files] : k \in 0..n}

\* Number of entries held by the graph.
Entries(g) ==
    LET RECURSIVE Sum(_)
        Sum(i) == IF i > Len(g) THEN 0 ELSE Len(g[i][2]) + Sum(i + 1)
    IN Sum(1)

\* graph[rel_path].append(inc) for every inc of includes, on the
\* defaultdict(list): the key appears with the first append.
AppendAll(g, rel_path, includes) ==
    IF includes = <<>> THEN g
    ELSE IF rel_path \in Keys(g)
         THEN [i \in 1..Len(g) |->
                 IF g[i][1] = rel_path THEN <<rel_path, g[i][2] \o includes>>
                 ELSE g[i]]
         ELSE Append(g, <<rel_path, includes>>)

\* The root check without its sys.exit(1).
CheckRoot_without_exit ==
    /\ entry = "file" /\ pc = "check_root"
    /\ pc' = "build"
    /\ UNCHANGED <<treeVars, outVars, entry, exit_code, modVars, fileVars>>

\* main: "if not include_dir.exists()"
CheckRoot ==
    /\ entry = "file" /\ pc = "check_root"
    /\ IF root_exists
       THEN pc' = "build" /\ UNCHANGED exit_code
       ELSE pc' = "exit" /\ exit_code' = 1
    /\ UNCHANGED <<treeVars, outVars, entry, modVars, fileVars>>

\* build_dependency_graph: one iteration of one of its two loops, the one
\* over rglob('*.h') first and the one over rglob('*.hpp') second; includes
\* is what extract_includes returns for the file.
ScanHeader ==
    /\ entry = "file" /\ pc = "build"
    /\ \E file_path \in Files \ scanned :
         /\ file_path \in HFiles \/ HFiles \subseteq scanned
         /\ \E includes \in IncludeLists(MaxIncludes - Entries(graph)) :
              graph' = AppendAll(graph, file_path, includes)
         /\ scanned' = scanned \cup {file_path}
    /\ pc' = IF scanned' = Files THEN "direct" ELSE "build"
    /\ phases' = phases \cup {"build"}
    /\ UNCHANGED <<treeVars, output, written, entry, exit_code, modVars,
                   root_exists, direct_cycles, transitive_cycles>>

\* main: "exit_code = 0" and "Check for direct circular includes"
CheckDirect ==
    /\ entry = "file" /\ pc = "direct"
    /\ direct_cycles' = find_direct_cycles(graph)
    /\ graph' = graph_after_direct(graph)
    /\ exit_code' = IF direct_cycles' # <<>> THEN 1 ELSE 0
    /\ pc' = "transitive"
    /\ phases' = phases \cup {"direct"}
    /\ UNCHANGED <<treeVars, output, written, entry, modVars, root_exists,
                   scanned, transitive_cycles>>

\* main: "Check for transitive cycles"; find_transitive_cycles reads the
\* graph with graph.get, keys() and values(), which insert no key.
CheckTransitive ==
    /\ entry = "file" /\ pc = "transitive"
    /\ transitive_cycles' = find_transitive_cycles(graph)
    /\ exit_code' = IF transitive_cycles' # <<>> THEN 1 ELSE exit_code
    /\ pc' = "finish"
    /\ phases' = phases \cup {"transitive"}
    /\ UNCHANGED <<treeVars, output, written, entry, modVars, root_exists,
                   scanned, graph, direct_cycles>>

\* main: the summary, "Write output file if specified" and
\* sys.exit(exit_code)
Finish ==
    /\ entry = "file" /\ pc = "finish"
    /\ phases' = phases \cup {"summary"}
    /\ written' = output
    /\ pc' = "exit"
    /\ UNCHANGED <<treeVars, output, entry, exit_code, modVars, fileVars>>

Next ==
    \/ AnalyzeSystem
    \/ GenerateReport
    \/ GenerateGraphviz
    \/ Summary
    \/ CheckRoot
    \/ ScanHeader
    \/ CheckDirect
    \/ CheckTransitive
    \/ Finish

Spec == Init /\ [][Next]_vars

\* --------------------------------------------- the policy check on its own

\* Number of edges of the module graph the policy check is applied to.
MaxPolicyEdges == 2

\* Every set of at most k elements of S.
RECURSIVE AtMost(_, _)
AtMost(S, k) ==
    IF k = 0 THEN {{}}
    ELSE LET T == AtMost(S, k - 1) IN T \cup {t \cup {x} : t \in T, x \in S}

\* The module graphs analyze_all_systems can leave over all the systems of
\* self.systems: no system depends on itself, every target is a system.
PolicyInit ==
    /\ entry = "policy"
    /\ pc = "policy"
    /\ exit_code = -1
    /\ analyzed = Len(AllSystems)
    /\ \E E \in AtMost({e \in Range(AllSystems) \X Range(AllSystems) :
                          e[1] # e[2]}, MaxPolicyEdges) :
         /\ all_deps = [s \in Range(AllSystems) |->
                          {d \in Range(AllSystems) : <<s, d>> \in E}]
         /\ cmake_deps = all_deps
         /\ include_deps = [s \in Range(AllSystems) |-> {}]
         /\ \E q \in Enumerations(E) :
              enum_order = [s \in Range(AllSystems) |->
                              LET out == SelectSeq(q, LAMBDA e : e[1] = s)
                              IN [i \in 1..Len(out) |-> out[i][2]]]
    /\ cycles = <<>>
    /\ levels = <<>>
    /\ violations = <<>>
    /\ root_exists = TRUE
    /\ scanned = {}
    /\ graph = <<>>
    /\ direct_cycles = <<>>
    /\ transitive_cycles = <<>>
    /\ phases = {}
    /\ output = FALSE
    /\ written = FALSE
    /\ tree = <<>>
    /\ contents = <<>>

\* generate_report: "Check for layer violations", over every key of
\* expected_layers.
CheckPolicy ==
    /\ entry = "policy" /\ pc = "policy"
    /\ violations' = layer_violations(AllSystems, enum_order, 1)
    /\ pc' = "policy_done"
    /\ UNCHANGED <<treeVars, outVars, entry, exit_code, analyzed, cmake_deps, include_deps,
                   all_deps, enum_order, cycles, levels, fileVars>>

PolicySpec == PolicyInit /\ [][CheckPolicy]_vars

\* ------------------------------------- the file-level scan, file by file

\* Total number of #include lines the scanned headers hold.
MaxLines == 2

\* A path is [abs, parts]: whether it starts at "/" and its components. An
\* include token and a node identifier are the components of the string
\* ("kcenon/../x.h" is <<"kcenon", "..", "x.h">>), the identifier "." is
\* <<".">>. The tree holds no symbolic links.

\* The working directory of the run.
Cwd == <<"proj">>

\* The headers the tree under the include directory can hold.
HeaderPaths == {<<"a.h">>, <<"kcenon", "b.h">>, <<"kcenon", "c.hpp">>}

\* The include tokens the headers can hold: "./b.h", "./missing.h",
\* "../a.h", "../../x.h", "kcenon/b.h", "kcenon/../../x.h",
\* "kcenon/missing.h", the bare "a.h", "b.h" and "..", and the system
\* headers "vector" and "stdlib.h".
Tokens ==
    { <<".", "b.h">>, <<".", "missing.h">>, <<"..", "a.h">>,
      <<"..", "..", "x.h">>, <<"kcenon", "b.h">>,
      <<"kcenon", "..", "..", "x.h">>, <<"kcenon", "missing.h">>,
      <<"a.h">>, <<"b.h">>, <<"..">>, <<"vector">>, <<"stdlib.h">> }

\* The value None of resolve_include; no identifier is the empty string.
None == <<>>

\* dir / token of pathlib: the components are appended, "." is dropped.
Join(dir, token) ==
    [abs |-> dir.abs,
     parts |-> dir.parts \o SelectSeq(token, LAMBDA c : c # ".")]

\* path.parent
Parent(path) ==
    [abs |-> path.abs, parts |-> SubSeq(path.parts, 1, Len(path.parts) - 1)]

\* What the operating system makes of "..": it removes the component
\* before it, and stays at "/" when there is none.
RECURSIVE Normalize(_, _)
Normalize(done, parts) ==
    IF parts = <<>> THEN done
    ELSE IF Head(parts) = ".."
         THEN Normalize(SubSeq(done, 1, Len(done) - 1), Tail(parts))
         ELSE Normalize(Append(done, Head(parts)), Tail(parts))

\* path.resolve(): absolute and without "..".
resolve(path) ==
    [abs |-> TRUE,
     parts |-> Normalize(<<>>, (IF path.abs THEN <<>> ELSE Cwd) \o path.parts)]

\* path.relative_to(base), a comparison of components: the set holding the
\* remaining components, empty for ValueError.
relative_to(path, base) ==
    IF /\ path.abs = base.abs
       /\ Len(base.parts) <= Len(path.parts)
       /\ SubSeq(path.parts, 1, Len(base.parts)) = base.parts
    THEN {SubSeq(path.parts, Len(base.parts) + 1, Len(path.parts))}
    ELSE {}

\* str(path) of a relative path.
Str(parts) == IF parts = <<>> THEN <<".">> ELSE parts

\* include_dir as main() hands it on: absolute, or relative to the working
\* directory when --include-dir names it so.
include_dir ==
    [abs |-> tree.absolute,
     parts |-> IF tree.absolute THEN Cwd \o <<"include">> ELSE <<"include">>]

\* A file rglob finds under include_dir.
FoundFile(rel) == [abs |-> include_dir.abs, parts |-> include_dir.parts \o rel]

\* The files and the directories of the tree, as resolved paths.
TreeFiles == {resolve(FoundFile(rel)).parts : rel \in tree.files}

\* The directories above the path f.
Above(f) == {SubSeq(f, 1, k) : k \in 0..(Len(f) - 1)}

TreeDirs ==
    LET root == resolve(include_dir).parts
    IN {root} \cup Above(root) \cup UNION {Above(f) : f \in TreeFiles}

\* path.exists()
exists(path) == resolve(path).parts \in TreeFiles \cup TreeDirs

\* is_system_header: the names of SYSTEM_HEADERS and the names that start
\* with "std".
is_system_header(header) == header \in {<<"vector">>, <<"stdlib.h">>}

resolve_include(include, from_file, dir) ==
    LET from_dir == Parent(from_file) IN
    IF Len(include) >= 2 /\ include[1] \in {"..", "."}
    THEN LET resolved == resolve(Join(from_dir, include))
             rel == relative_to(resolved, dir)
         IN IF rel = {} THEN None ELSE Str(CHOOSE r \in rel : TRUE)
    ELSE IF Len(include) >= 2 /\ include[1] = "kcenon"
    THEN include
    ELSE IF Len(include) = 1
    THEN LET same_dir_file == Join(from_dir, include)
             rel == relative_to(same_dir_file, dir)
         IN IF exists(same_dir_file) /\ rel # {}
            THEN Str(CHOOSE r \in rel : TRUE)
            ELSE None
    ELSE None

\* extract_includes, the loop over the lines of the file: the resolved
\* include of every line that names no system header and resolves.
RECURSIVE extract_lines(_, _, _)
extract_lines(lines, file_path, dir) ==
    IF lines = <<>> THEN <<>>
    ELSE LET include == Head(lines)
             rest == extract_lines(Tail(lines), file_path, dir)
             resolved == resolve_include(include, file_path, dir)
         IN IF is_system_header(include) \/ resolved = None THEN rest
            ELSE <<resolved>> \o rest

\* extract_includes without its "except IOError": the error leaves the
\* function.
extract_includes_uncaught(f, file_path, dir) ==
    [raised |-> f.failed, includes |-> extract_lines(f.lines, file_path, dir)]

\* extract_includes(file_path, include_dir) on a file f whose read delivers
\* f.lines and then, when f.failed, raises IOError: the error is caught and
\* the includes found so far are returned.
extract_includes(f, file_path, dir) ==
    [raised |-> FALSE, includes |-> extract_lines(f.lines, file_path, dir)]

\* What a header can hold: at most n #include lines that a read delivers,
\* and whether the read then fails (with no line, at open).
FileContents(n) ==
    {[lines |-> l, failed |-> b] :
       l \in UNION {[1..k -> Tokens] : k \in 0..n}, b \in BOOLEAN}

\* Number of #include lines read so far.
LinesRead ==
    LET RECURSIVE Sum(_)
        Sum(K) == IF K = {} THEN 0
                  ELSE LET k == CHOOSE x \in K : TRUE
                       IN Len(contents[k].lines) + Sum(K \ {k})
    IN Sum(DOMAIN contents)

\* The suffix of a header name.
IsHpp(rel) == rel[Len(rel)] \in {"c.hpp"}

\* build_dependency_graph on an existing include directory.
ScanInit ==
    /\ entry = "scan"
    /\ pc = "build"
    /\ exit_code = -1
    /\ analyzed = 0
    /\ cmake_deps = <<>>
    /\ include_deps = <<>>
    /\ all_deps = <<>>
    /\ enum_order = <<>>
    /\ cycles = <<>>
    /\ levels = <<>>
    /\ violations = <<>>
    /\ root_exists = TRUE
    /\ scanned = {}
    /\ graph = <<>>
    /\ direct_cycles = <<>>
    /\ transitive_cycles = <<>>
    /\ phases = {}
    /\ output = FALSE
    /\ written = FALSE
    /\ tree \in [absolute : BOOLEAN, files : (SUBSET HeaderPaths) \ {{}}]
    /\ contents = <<>>

\* build_dependency_graph: one iteration of one of its two loops, with the
\* file read and its includes resolved by extract_includes. An exception
\* that leaves extract_includes ends the run with a traceback.
ScanFile ==
    /\ entry = "scan" /\ pc = "build"
    /\ \E rel \in tree.files \ scanned :
         /\ ~IsHpp(rel) \/ \A other \in tree.files \ scanned : IsHpp(other)
         /\ \E f \in FileContents(MaxLines - LinesRead) :
              LET file_path == FoundFile(rel)
                  rel_path == Str(CHOOSE r \in relative_to(file_path,
                                                          include_dir) : TRUE)
                  r == extract_includes(f, file_path, include_dir)
              IN /\ contents' = Put(contents, rel, f)
                 /\ scanned' = scanned \cup {rel}
                 /\ IF r.raised
                    THEN /\ pc' = "exit"
                         /\ exit_code' = 1
                         /\ UNCHANGED graph
                    ELSE /\ graph' = AppendAll(graph, rel_path, r.includes)
                         /\ pc' = IF scanned' = tree.files THEN "built"
                                  ELSE "build"
                         /\ UNCHANGED exit_code
    /\ UNCHANGED <<entry, modVars, root_exists, direct_cycles,
                   transitive_cycles, outVars, tree>>

\* ---------------------------------- the module-level scan, file by file

\* Total number of files (CMakeLists.txt and source files) the systems
\* hold.
MaxSources == 2

\* The directory names an #include <kcenon/name/...> can hold.
DirNames == {"common", "thread", "utils"}

\* f"{included_system}_system"
full_system_name(included_system) ==
    CASE included_system = "common" -> "common_system"
      [] included_system = "thread" -> "thread_system"
      [] included_system = "utils" -> "utils_system"

\* What the CMakeLists.txt of a system can be: missing, unreadable
\* (read_text raises), or readable with the systems its
\* target_link_libraries, find_package and add_subdirectory statements
\* mention.
CMakeFiles(n) ==
    {[state |-> "unreadable", mentions |-> {}]}
    \cup {[state |-> "ok", mentions |-> m] : m \in AtMost(Systems, n)}

\* What parse_cmake_dependencies finds at base_path/system/CMakeLists.txt
\* when k more files can exist.
CMakeChoices(k, n) ==
    {[state |-> "missing", mentions |-> {}]}
    \cup (IF k > 0 THEN CMakeFiles(n) ELSE {})

\* What a source file can be: unreadable or undecodable (read_text
\* raises), or readable with the directory names its kcenon includes hold.
SourceFile(n) ==
    {[failed |-> TRUE, includes |-> {}]}
    \cup {[failed |-> FALSE, includes |-> m] : m \in AtMost(DirNames, n)}

\* Number of declarations the files of one system hold.
RECURSIVE Declared(_)
Declared(sources) ==
    IF sources = <<>> THEN 0
    ELSE Cardinality(Head(sources).includes) + Declared(Tail(sources))

\* The source files rglob finds for one system: at most k files holding at
\* most n declarations.
SourceFiles(k, n) ==
    {q \in UNION {[1..j -> SourceFile(n)] : j \in 0..k} : Declared(q) <= n}

\* parse_cmake_dependencies without its try/except.
cmake_dependencies_uncaught(system, cmake_file) ==
    [raised |-> cmake_file.state = "unreadable",
     dependencies |-> cmake_file.mentions \ {system}]

\* parse_cmake_dependencies without "other_system != system".
cmake_dependencies_with_self(system, cmake_file) ==
    [raised |-> FALSE,
     dependencies |-> IF cmake_file.state = "ok"
                      THEN cmake_file.mentions ELSE {}]

\* parse_cmake_dependencies(system) on the file cmake_file.
cmake_dependencies(system, cmake_file) ==
    [raised |-> FALSE,
     dependencies |-> IF cmake_file.state = "ok"
                      THEN cmake_file.mentions \ {system} ELSE {}]

\* parse_include_dependencies: the body of the try for one source file.
file_dependencies(system, source_file) ==
    {full_system_name(d) : d \in {x \in source_file.includes :
        full_system_name(x) \in Systems /\ full_system_name(x) # system}}
    \cup (IF "common" \in source_file.includes /\ system # "common_system"
          THEN {"common_system"} ELSE {})

\* parse_include_dependencies without its try/except.
include_dependencies_uncaught(system, sources) ==
    [raised |-> \E i \in 1..Len(sources) : sources[i].failed,
     dependencies |-> {}]

\* parse_include_dependencies(system) on the source files sources.
include_dependencies(system, sources) ==
    [raised |-> FALSE,
     dependencies |->
       UNION {file_dependencies(system, sources[i]) :
                i \in {j \in 1..Len(sources) : ~sources[j].failed}}]

\* Number of declarations read so far by the module-level scan.
DeclsRead ==
    LET RECURSIVE Sum(_)
        Sum(K) == IF K = {} THEN 0
                  ELSE LET k == CHOOSE x \in K : TRUE
                       IN Cardinality(contents[k].cmake.mentions)
                            + Declared(contents[k].sources) + Sum(K \ {k})
    IN Sum(DOMAIN contents)

\* Number of files read so far by the module-level scan.
FilesRead ==
    LET RECURSIVE Sum(_)
        Sum(K) == IF K = {} THEN 0
                  ELSE LET k == CHOOSE x \in K : TRUE
                       IN (IF contents[k].cmake.state = "missing" THEN 0
                           ELSE 1)
                            + Len(contents[k].sources) + Sum(K \ {k})
    IN Sum(DOMAIN contents)

\* analyze_all_systems on the trees of the systems.
ParseInit ==
    /\ entry = "parse"
    /\ pc = "analyze"
    /\ exit_code = -1
    /\ analyzed = 0
    /\ cmake_deps = <<>>
    /\ include_deps = <<>>
    /\ all_deps = <<>>
    /\ enum_order = <<>>
    /\ cycles = <<>>
    /\ levels = <<>>
    /\ violations = <<>>
    /\ root_exists = TRUE
    /\ scanned = {}
    /\ graph = <<>>
    /\ direct_cycles = <<>>
    /\ transitive_cycles = <<>>
    /\ phases = {}
    /\ output = FALSE
    /\ written = FALSE
    /\ tree = <<>>
    /\ contents = <<>>

\* analyze_all_systems: one iteration of "for system in self.systems", with
\* the files read by parse_cmake_dependencies and
\* parse_include_dependencies. An exception that leaves one of them ends
\* the run with a traceback.
ParseSystem ==
    /\ entry = "parse" /\ pc = "analyze"
    /\ analyzed < Len(systems)
    /\ LET system == systems[analyzed + 1] IN
       \E cmake_file \in CMakeChoices(MaxSources - FilesRead,
                                      MaxLines - DeclsRead) :
       \E sources \in SourceFiles(
              MaxSources - FilesRead
                - (IF cmake_file.state = "missing" THEN 0 ELSE 1),
              MaxLines - DeclsRead - Cardinality(cmake_file.mentions)) :
         LET cmake == cmake_dependencies(system, cmake_file)
             include == include_dependencies(system, sources)
         IN /\ contents' = Put(contents, system,
                               [cmake |-> cmake_file, sources |-> sources])
            /\ IF cmake.raised \/ include.raised
               THEN /\ pc' = "exit"
                    /\ exit_code' = 1
                    /\ UNCHANGED <<analyzed, cmake_deps, include_deps,
                                   all_deps>>
               ELSE /\ cmake_deps' = Put(cmake_deps, system,
                                         cmake.dependencies)
                    /\ include_deps' = Put(include_deps, system,
                                           include.dependencies)
                    /\ all_deps' = Put(all_deps, system,
                                       cmake.dependencies
                                         \cup include.dependencies)
                    /\ analyzed' = analyzed + 1
                    /\ pc' = IF analyzed' = Len(systems) THEN "report"
                             ELSE "analyze"
                    /\ UNCHANGED exit_code
    /\ UNCHANGED <<entry, enum_order, cycles, levels, violations, fileVars,
                   outVars, tree>>

\* The scans of the two entry points, file by file.
ScanSpecInit == ScanInit \/ ParseInit

ScanSpecNext == ScanFile \/ ParseSystem

ScanSpec == ScanSpecInit /\ [][ScanSpecNext]_vars

\* ------------------------------------------------------------ graph theory

\* The edges of the module graph.
ModuleEdges == {<<s, d>> \in (DOMAIN all_deps) \X Range(AllSystems) :
                  d \in all_deps[s]}

\* The edges of the file graph.
FileEdges == {<<s, d>> \in Files \X Files : d \in Range(DepsOf(graph, s))}

Succ(E, n) == {e[2] : e \in {x \in E : x[1] = n}}

\* The nodes reachable from the nodes of R along the edges of E.
RECURSIVE Closure(_, _)
Closure(E, R) ==
    LET R2 == R \cup UNION {Succ(E, r) : r \in R}
    IN IF R2 = R THEN R ELSE Closure(E, R2)

\* The nodes reachable from n in one or more steps.
ReachFrom(E, n) == Closure(E, Succ(E, n))

OnCycle(E, n) == n \in ReachFrom(E, n)

HasCycle(E) == \E e \in E : OnCycle(E, e[1])

\* Length of the longest dependency chain starting at n, in an acyclic graph.
RECURSIVE LongestChain(_, _)
LongestChain(E, n) ==
    IF Succ(E, n) = {} THEN 0
    ELSE LET below == {LongestChain(E, d) : d \in Succ(E, n)}
         IN 1 + CHOOSE m \in below : \A k \in below : k <= m

\* c starts and ends with the same node and every consecutive pair of its
\* nodes is an edge of E.
IsGenuineCycle(E, c) ==
    /\ Len(c) >= 2
    /\ c[1] = c[Len(c)]
    /\ \A i \in 1..(Len(c) - 1) : <<c[i], c[i + 1]>> \in E

\* The families of pairwise node-disjoint cycles of E over the nodes N, each
\* cycle given by the set of nodes it runs through.
DisjointCycles(E, N) ==
    {P \in SUBSET (SUBSET N \ {{}}) :
       /\ \A C, D \in P : C # D => C \cap D = {}
       /\ \A C \in P : \E n \in C :
            n \in ReachFrom({e \in E : e[1] \in C /\ e[2] \in C}, n)}

ReportDone == entry = "module" /\ pc \in {"graphviz", "summary", "exit"}

DirectDone ==
    /\ entry = "file"
    /\ pc \in {"transitive", "finish"} \/ (pc = "exit" /\ root_exists)

TransitiveDone ==
    /\ entry = "file"
    /\ pc = "finish" \/ (pc = "exit" /\ root_exists)

PolicyDone == entry = "policy" /\ pc = "policy_done"

\* The genuine cycles among the cycles of a returned list.
Genuine(E, found) == {c \in Range(found) : IsGenuineCycle(E, c)}

\* The unordered pairs a list of (src, dst) pairs names.
Unordered(pairs) == {{p[1], p[2]} : p \in Range(pairs)}

\* Number of entries of q equal to x.
Count(q, x) == Cardinality({i \in DOMAIN q : q[i] = x})

\* Every order of the entries of the list q.
ListOrders(q) ==
    {p \in [1..Len(q) -> Range(q)] :
       \A x \in Range(q) : Count(p, x) = Count(q, x)}

\* Every order in which build_dependency_graph can insert the edges of g:
\* the keys in any order that puts the .h headers before the .hpp headers,
\* the entries of each list in any order.
BuildOrders(g) ==
    LET idx == 1..Len(g)
        keyOrders ==
          {k \in [idx -> idx] :
             /\ \A i, j \in idx : i # j => k[i] # k[j]
             /\ \A i, j \in idx :
                  i < j => ~(g[k[i]][1] \in HppFiles /\ g[k[j]][1] \in HFiles)}
        lists == UNION {ListOrders(g[i][2]) : i \in idx}
    IN UNION {{[i \in idx |-> <<g[k[i]][1], l[i]>>] :
                 l \in {m \in [idx -> lists] :
                          \A i \in idx : m[i] \in ListOrders(g[k[i]][2])}} :
              k \in keyOrders}

\* Every order in which the sets of all_deps can enumerate.
EnumOrders ==
    {o \in [Systems -> UNION {Enumerations(all_deps[s]) : s \in Systems}] :
       \A s \in Systems : o[s] \in Enumerations(all_deps[s])}

\* ------------------------------------------------------------------ claims

\* C1: on an acyclic module graph calculate_levels gives every system the
\* length of the longest dependency chain starting at it (0 for a system
\* without dependencies, else one more than the maximum over its
\* dependencies).
C1_LevelIsLongestChain ==
    (ReportDone /\ ~HasCycle(ModuleEdges)) =>
        \A s \in Systems : levels[s] = LongestChain(ModuleEdges, s)

\* C2: every system that lies on a dependency cycle gets the cycle
\* indicator -1 from calculate_levels, never a level >= 0.
C2_CycleNodesUnresolved ==
    ReportDone =>
        \A s \in Systems : OnCycle(ModuleEdges, s) => levels[s] = -1

C2_Witness ==
    /\ ReportDone
    /\ \E s \in Systems : OnCycle(ModuleEdges, s) /\ levels[s] = -1
    /\ \E s \in Systems : ~OnCycle(ModuleEdges, s)

\* C3: a system that is not on a cycle, has a dependency, and whose
\* dependencies all lie on a cycle gets the cycle indicator -1.
C3_DependsOnlyOnCycleUnresolved ==
    ReportDone =>
        \A s \in Systems :
            (/\ ~OnCycle(ModuleEdges, s)
             /\ all_deps[s] # {}
             /\ \A d \in all_deps[s] : OnCycle(ModuleEdges, d))
            => levels[s] = -1

\* C4: with an existing scan root, either entry point ends with exit code 1
\* if and only if the graph holds a dependency cycle, and with 0 otherwise;
\* its cycle scans report a cycle exactly when one exists.
C4_ExitCodeIffCycle ==
    /\ (entry = "module" /\ pc = "exit") =>
         /\ exit_code = (IF HasCycle(ModuleEdges) THEN 1 ELSE 0)
         /\ (cycles # <<>>) <=> HasCycle(ModuleEdges)
    /\ (entry = "file" /\ pc = "exit" /\ root_exists) =>
         /\ exit_code = (IF HasCycle(FileEdges) THEN 1 ELSE 0)
         /\ (direct_cycles # <<>> \/ transitive_cycles # <<>>)
              <=> HasCycle(FileEdges)

C4_Witness ==
    /\ entry = "file" /\ pc = "exit" /\ root_exists
    /\ HasCycle(FileEdges)
    /\ direct_cycles = <<>>
    /\ exit_code = 1

\* C5 (as claimed): whenever the policy check of the module-level analyzer
\* finds a layer violation, the run ends with exit code 1, also without a
\* cycle.
C5_ViolationExitsOne ==
    (entry = "module" /\ pc = "exit" /\ violations # <<>>) => exit_code = 1

\* C5 (amended): a layer violation is listed in the report and leaves the
\* exit code to the cycle scan: with a violation found, the run ends with 1
\* when the graph holds a cycle and with 0 when it holds none.
C5_ViolationLeavesExitCode ==
    (entry = "module" /\ pc = "exit" /\ violations # <<>>) =>
        exit_code = (IF HasCycle(ModuleEdges) THEN 1 ELSE 0)

C5_Witness ==
    /\ entry = "module" /\ pc = "exit"
    /\ violations # <<>>
    /\ ~HasCycle(ModuleEdges)
    /\ exit_code = 0

\* C6: for every k, if the graph holds k pairwise node-disjoint cycles, the
\* list a transitive scan returns (detect_cycles, find_transitive_cycles)
\* holds at least k genuine cycles, whatever the enumeration order.
C6_DisjointCyclesAllReported ==
    /\ ReportDone =>
         \A P \in DisjointCycles(ModuleEdges, Systems) :
            Cardinality(Genuine(ModuleEdges, cycles)) >= Cardinality(P)
    /\ TransitiveDone =>
         \A P \in DisjointCycles(FileEdges, Files) :
            Cardinality(Genuine(FileEdges, transitive_cycles))
              >= Cardinality(P)

\* C7: find_direct_cycles reports the unordered pair {A, B} if and only if
\* the graph holds both A->B and B->A, and reports no unordered pair twice,
\* also when an edge occurs several times in a dependency list.
C7_DirectPairsExactlyMutual ==
    DirectDone =>
        /\ Unordered(direct_cycles)
             = {{e[1], e[2]} : e \in {x \in FileEdges :
                                        <<x[2], x[1]>> \in FileEdges}}
        /\ \A i, j \in 1..Len(direct_cycles) :
             i # j => {direct_cycles[i][1], direct_cycles[i][2]}
                        # {direct_cycles[j][1], direct_cycles[j][2]}

C7_Witness ==
    /\ DirectDone
    /\ direct_cycles # <<>>
    /\ \E i \in 1..Len(graph) :
         Len(graph[i][2]) > Cardinality(Range(graph[i][2]))

\* C8 (as claimed): the set of (src, dst) pairs find_direct_cycles reports
\* is the same for every order in which the edges were inserted.
C8_DirectPairsOrderIndependent ==
    DirectDone =>
        \A h \in BuildOrders(graph) :
            Range(find_direct_cycles(h)) = Range(direct_cycles)

\* C8 (amended): the set of unordered pairs {src, dst} find_direct_cycles
\* reports is the same for every order in which the edges were inserted;
\* which of (A, B) and (B, A) stands for the pair follows the order.
C8_UnorderedPairsOrderIndependent ==
    DirectDone =>
        \A h \in BuildOrders(graph) :
            Unordered(find_direct_cycles(h)) = Unordered(direct_cycles)

C8_Witness ==
    /\ DirectDone
    /\ direct_cycles # <<>>
    /\ \E h \in BuildOrders(graph) :
         Range(find_direct_cycles(h)) # Range(direct_cycles)

\* C9: for a fixed set of edges, detect_cycles returns the same list of
\* cycles for every order in which the dependency sets enumerate.
C9_DetectCyclesOrderIndependent ==
    ReportDone => \A o \in EnumOrders : detect_cycles(o) = cycles

\* C10: the policy check lists exactly the edges (A, B) with
\* expected_level(B) >= expected_level(A) and B # common_system, each once,
\* as (A, B, expected_level(A), expected_level(B)).
C10_ViolationsExact ==
    PolicyDone =>
        LET flagged == {e \in ModuleEdges :
                          /\ expected_layers[e[2]] >= expected_layers[e[1]]
                          /\ e[2] # "common_system"}
        IN /\ Range(violations)
                = {<<e[1], e[2], expected_layers[e[1]], expected_layers[e[2]]>> :
                     e \in flagged}
           /\ Len(violations) = Cardinality(flagged)

C10_Witness ==
    /\ PolicyDone
    /\ <<"monitoring_system", "thread_system">> \in ModuleEdges
    /\ <<"thread_system", "logger_system">> \in ModuleEdges
    /\ violations = <<(<<"thread_system", "logger_system", 1, 1>>)>>

\* ------------------------------------------------ claims on the resolver

\* The file an include token of the header rel names: a kcenon/ token
\* counts from the include directory, every other token from the directory
\* of the header.
NamedPath(include, rel) ==
    LET dir == IF Len(include) >= 2 /\ include[1] = "kcenon"
               THEN include_dir ELSE Parent(FoundFile(rel))
    IN resolve(Join(dir, include)).parts

\* The file a node identifier names under the include directory.
NodePath(id) == resolve(Join(include_dir, id)).parts

\* The path lies in the tree under the scan root.
InsideRoot(parts) == relative_to([abs |-> TRUE, parts |-> parts],
                                 resolve(include_dir)) # {}

\* The #include lines read so far, as <<header, token>>.
LinesSeen ==
    UNION {{<<rel, contents[rel].lines[i]>> :
              i \in 1..Len(contents[rel].lines)} : rel \in DOMAIN contents}

\* The edges of the graph of the scan.
ScanEdges ==
    UNION {{<<graph[i][1], graph[i][2][j]>> : j \in 1..Len(graph[i][2])} :
             i \in 1..Len(graph)}

\* C11: resolve_include returns None for every token, relative, kcenon/ or
\* bare, whose path normalizes outside the scan root, and no target of an
\* edge of the graph lies outside the scan root.
C11_OutsideRootUnresolved ==
    entry = "scan" =>
        /\ \A l \in LinesSeen :
             ~InsideRoot(NamedPath(l[2], l[1]))
               => resolve_include(l[2], FoundFile(l[1]), include_dir) = None
        /\ \A e \in ScanEdges : InsideRoot(NodePath(e[2]))

\* C12: resolve_include returns None for every token that names no
\* existing file, and every target of an edge of the graph names a file
\* that exists under the scan root.
C12_ResolvedFilesExist ==
    entry = "scan" =>
        /\ \A l \in LinesSeen :
             NamedPath(l[2], l[1]) \notin TreeFiles
               => resolve_include(l[2], FoundFile(l[1]), include_dir) = None
        /\ \A e \in ScanEdges : NodePath(e[2]) \in TreeFiles

\* ------------------------------------------- claims on the graph builders

\* C13: each (source, target) pair occurs at most once in the graph of
\* build_dependency_graph and in the graph of analyze_all_systems, also
\* when the same declaration is seen more than once, and the reported total
\* number of edges is the number of distinct edges.
C13_EdgesOccurOnce ==
    /\ entry \in {"file", "scan"} =>
         /\ \A i \in 1..Len(graph) :
              Len(graph[i][2]) = Cardinality(Range(graph[i][2]))
         /\ Entries(graph) = Cardinality(ScanEdges)
    /\ entry = "module" =>
         Decls(all_deps) = Cardinality(ModuleEdges)

\* ------------------------------------------------- claims on the run

\* C14: when the scan root does not exist the file-level entry point ends
\* with exit code 1 before any scanning, graph building, cycle detection or
\* report writing, and a run whose scan root exists goes through every
\* phase.
C14_MissingRootExitsFirst ==
    entry = "file" =>
        /\ ~root_exists => pc \in {"check_root", "exit"}
        /\ (pc = "exit" /\ ~root_exists) =>
             /\ exit_code = 1
             /\ phases = {} /\ scanned = {} /\ graph = <<>>
             /\ direct_cycles = <<>> /\ transitive_cycles = <<>>
             /\ ~written
        /\ (pc = "exit" /\ root_exists) =>
             /\ phases = {"build", "direct", "transitive", "summary"}
             /\ scanned = Files
             /\ written = output

C14_Witness ==
    /\ entry = "file" /\ pc = "exit"
    /\ ~root_exists /\ output
    /\ exit_code = 1 /\ ~written

\* C15: a failure to open, read or decode one file never aborts a scan:
\* the scan goes on to the remaining files, and every declaration read from
\* a readable file is in the graph, whatever happened to the other files.
C15_ReadFailureKeepsScan ==
    /\ entry = "scan" =>
         /\ pc # "exit"
         /\ pc = "built" => scanned = tree.files
         /\ \A l \in LinesSeen :
              LET resolved == resolve_include(l[2], FoundFile(l[1]),
                                              include_dir)
              IN (~is_system_header(l[2]) /\ resolved # None)
                   => <<Str(l[1]), resolved>> \in ScanEdges
    /\ entry = "parse" =>
         /\ pc # "exit"
         /\ pc = "report" => analyzed = Len(systems)
         /\ DOMAIN all_deps = DOMAIN contents
         /\ \A system \in DOMAIN contents :
              LET cmake_file == contents[system].cmake
                  sources == contents[system].sources
              IN /\ cmake_file.state = "ok" =>
                      cmake_file.mentions \ {system}
                        \subseteq cmake_deps[system]
                 /\ \A i \in 1..Len(sources) :
                      ~sources[i].failed =>
                        file_dependencies(system, sources[i])
                          \subseteq include_deps[system]
                 /\ all_deps[system]
                      = cmake_deps[system] \cup include_deps[system]

C15_Witness ==
    /\ entry = "scan" /\ pc = "built"
    /\ \E a, b \in DOMAIN contents :
         /\ contents[a].failed
         /\ ~contents[b].failed
         /\ \E e \in ScanEdges : e[1] = Str(b)

\* C16: after analyze_all_systems, generate_report and
\* generate_graphviz_file (with detect_cycles and calculate_levels) leave
\* cmake_deps, include_deps and all_deps as they are, keys and edge sets,
\* and find_direct_cycles and find_transitive_cycles add no key and no edge
\* to the file graph.
C16_AnalysisLeavesGraphs ==
    [][/\ (entry = "module" /\ pc \in {"report", "graphviz", "summary"})
            => UNCHANGED <<cmake_deps, include_deps, all_deps>>
       /\ (entry = "file" /\ pc \in {"direct", "transitive", "finish"})
            => graph' = graph]_vars

C16_Witness ==
    /\ entry = "file" /\ pc = "exit" /\ root_exists
    /\ direct_cycles # <<>>
    /\ \E e \in FileEdges : e[2] \notin Keys(graph)

\* ------------------------------------------------- claims on the cycles

\* C17: every cycle find_transitive_cycles returns is genuine: it starts
\* and ends with the same node and every consecutive pair of its nodes is
\* an edge of the graph, whatever the graph and however many cycles were
\* found before it.
C17_TransitiveCyclesGenuine ==
    TransitiveDone =>
        \A c \in Range(transitive_cycles) : IsGenuineCycle(FileEdges, c)

C17_Witness ==
    /\ TransitiveDone
    /\ transitive_cycles = <<(<<"a.h", "a.h">>)>>
    /\ <<"b.h", "a.h">> \in FileEdges

\* C18: every cycle DependencyAnalyzer.detect_cycles returns is genuine:
\* it starts and ends with the same system and every consecutive pair of
\* its systems is an edge of all_deps, also a cycle recorded after a first
\* one.
C18_DetectedCyclesGenuine ==
    ReportDone => \A c \in Range(cycles) : IsGenuineCycle(ModuleEdges, c)

\* C19: every cycle find_transitive_cycles returns runs through three or
\* more distinct nodes, so that a mutual dependency of two nodes is
\* reported by the direct scan alone; and for the three-node cycle
\* a.h -> b.h -> c.hpp -> a.h the transitive scan returns exactly one cycle
\* and the direct scan none.
C19_TransitiveCyclesSpanThree ==
    TransitiveDone =>
        /\ \A c \in Range(transitive_cycles) : Cardinality(Range(c)) >= 3
        /\ FileEdges = {<<"a.h", "b.h">>, <<"b.h", "c.hpp">>,
                        <<"c.hpp", "a.h">>}
             => /\ Len(transitive_cycles) = 1
                /\ direct_cycles = <<>>

\* C20: in both depth-first scans the on-stack collection is the set of
\* nodes on the current traversal path: when a top-level traversal from a
\* new start node begins, rec_stack is empty, also after an earlier
\* top-level traversal has ended by finding a cycle.
C20_StackEmptyAtEachStart ==
    /\ TransitiveDone =>
         \A i \in 1..Len(transitive_scan(graph).starts) :
            transitive_scan(graph).starts[i] = {}
    /\ ReportDone =>
         \A i \in 1..Len(detect_scan(enum_order).starts) :
            detect_scan(enum_order).starts[i] = <<>>

\* C21: the level sentinel agrees with the cycle scan: calculate_levels
\* gives -1 to at least one system if and only if detect_cycles returns at
\* least one cycle, and on an acyclic graph every system gets a level >= 0.
C21_SentinelAgreesWithCycleScan ==
    ReportDone =>
        /\ (\E s \in Systems : levels[s] = -1) <=> (cycles # <<>>)
        /\ ~HasCycle(ModuleEdges) => \A s \in Systems : levels[s] >= 0

\* C22: in every state analyze_all_systems goes through, every target of
\* an edge of cmake_deps, include_deps and all_deps is a declared system,
\* no system has an edge to itself, all_deps[s] is cmake_deps[s] united
\* with include_deps[s], and at the end every declared system is a key.
C22_ModuleGraphWellFormed ==
    entry = "parse" =>
        /\ DOMAIN cmake_deps = DOMAIN all_deps
        /\ DOMAIN include_deps = DOMAIN all_deps
        /\ DOMAIN all_deps \subseteq Systems
        /\ pc = "report" => DOMAIN all_deps = Systems
        /\ \A s \in DOMAIN all_deps :
             /\ cmake_deps[s] \subseteq Systems \ {s}
             /\ include_deps[s] \subseteq Systems \ {s}
             /\ all_deps[s] = cmake_deps[s] \cup include_deps[s]

C22_Witness ==
    /\ entry = "parse" /\ pc = "report"
    /\ \E s \in Systems :
         /\ s \in contents[s].cmake.mentions
         /\ cmake_deps[s] # {}

\* C23: every pair find_direct_cycles reports consists of two distinct
\* nodes: a header whose include resolves to the header itself is never
\* reported as a direct circular include.
C23_DirectPairsDistinct ==
    DirectDone =>
        \A i \in 1..Len(direct_cycles) :
            direct_cycles[i][1] # direct_cycles[i][2]

====
